---- MODULE Spec2Model ----
(***************************************************************************)
(* A model of class Map of app/cmd/libs/map.cpp: a growable array of       *)
(* (key, value) pointer pairs with linear lookup.                          *)
(*                                                                         *)
(* size_t keeps a fixed width: every size_t result is taken modulo         *)
(* 2^SizeBits.  The width is scaled down from 64 bits so that the values   *)
(* at which capacity * 2 and capacity * sizeof(Entry) wrap are inside the  *)
(* model; sizeof(Entry) keeps its real value.  The allocator and memory    *)
(* are scaled with it: the address space holds 2^SizeBits bytes, and no    *)
(* block is larger than PTRDIFF_MAX bytes.                                 *)
(*                                                                         *)
(* Undefined behaviour is a choice over what a hosted build does:          *)
(*   - a store or load through the null pointer kills the process;         *)
(*   - a store past the end of a block either kills the process (guard     *)
(*     page, sanitizer) or lands in the bytes behind the block, and the    *)
(*     process goes on with those bytes readable;                          *)
(*   - a load of a slot that was never written kills the process or        *)
(*     yields any entry.                                                   *)
(* Keys handed to put and get are valid C strings owned by the caller.     *)
(***************************************************************************)
EXTENDS Integers, Sequences, FiniteSets, TLC

\* ---------------------------------------------------------------- bounds

\* Width of size_t in the scaled machine.
SizeBits == 8

\* put is called at most MaxPuts times on one Map.
MaxPuts == 4

\* Map is constructed with every capacity 0..MaxInitCap, and with the
\* capacities of WrapCaps below.
MaxInitCap == 4

\* ------------------------------------------------------------- constants

\* sizeof(Entry): two pointers of 8 bytes.
EntrySize == 16

SizeMod == 2 ^ SizeBits

SizeT == 0 .. (SizeMod - 1)

\* size_t multiplication, as in capacity * sizeof(Entry) and capacity *= 2.
MulSizeT(a, b) == (a * b) % SizeMod

\* size_t increment, as in size++.
IncSizeT(a) == (a + 1) % SizeMod

\* The largest request an allocator serves (PTRDIFF_MAX).
MaxAllocBytes == (SizeMod \div 2) - 1

\* Entry slots that fit in the address space, counted from entries.
AddrSlots == SizeMod \div EntrySize

Slots == 0 .. (AddrSlots - 1)

\* Capacities whose byte count wraps, or is beyond any allocation:
\* capacity * sizeof(Entry) is 0, 16, 0 and 2^SizeBits - 16 here.
WrapCaps == {AddrSlots, AddrSlots + 1, SizeMod \div 2, SizeMod - 1}

InitCaps == (0 .. MaxInitCap) \cup WrapCaps

\* ------------------------------------------------------ keys and values

NULL == "NULL"

Block == "block"

\* The const char* keys a caller passes: k1 and k1dup are two pointers to
\* equal text, k2 points to a text that k1's text is a proper prefix of.
Keys == {"k1", "k1dup", "k2"}

\* The text a key pointer points to, without its terminating NUL.
Content(p) ==
    CASE p = "k1" -> <<1>>
      [] p = "k1dup" -> <<1>>
      [] p = "k2" -> <<1, 2>>

\* The const char* values a caller passes.
Values == {"v1", "v2"}

\* get's result when no entry matches.
nullptr == "nullptr"

\* An entry slot that was never written.
Uninit == [key |-> "?", value |-> "?"]

Entries == [key : Keys, value : Values]

\* The character at offset i (from 1) of a C string: NUL at its end.
CharAt(s, i) == IF i <= Len(s) THEN s[i] ELSE 0

RECURSIVE StrCmpFrom(_, _, _)
StrCmpFrom(s, t, i) ==
    IF CharAt(s, i) # CharAt(t, i) THEN CharAt(s, i) - CharAt(t, i)
    ELSE IF CharAt(s, i) = 0 THEN 0
    ELSE StrCmpFrom(s, t, i + 1)

\* strcmp on identical pointers only: the mutant of strcmp.
StrCmpIdentity(p, q) == IF p = q THEN 0 ELSE 1

\* strcmp(p, q): 0 when the two texts are equal up to their NUL.
strcmp(p, q) == StrCmpFrom(Content(p), Content(q), 1)

\* ----------------------------------------------------------------- state

VARIABLES
    capacity,          \* Map::capacity
    size,              \* Map::size
    entries,           \* Map::entries: NULL or Block
    blockBytes,        \* bytes of the block entries points to
    mem,               \* the Entry slots at entries[0], entries[1], ...
    status,            \* "running", "crashed" or "destroyed"
    last,              \* the last call: its name, key argument and result
    initial_capacity,  \* the constructor's argument
    allocFailed,       \* malloc or realloc returned NULL for a request > 0
    reallocs,          \* calls of realloc so far
    nputs,             \* calls of put that returned
    inserted           \* the (key, value) arguments of those calls, in order

vars == <<capacity, size, entries, blockBytes, mem, status, last,
          initial_capacity, allocFailed, reallocs, nputs, inserted>>

container == <<capacity, size, entries, blockBytes, mem>>

NoMem == [i \in Slots |-> Uninit]

\* ------------------------------------------------------------- allocator

\* malloc(n): a request of 0 bytes yields NULL or a block of no bytes, a
\* request beyond MaxAllocBytes fails, any other request fails or succeeds.
Malloc(n) ==
    IF n = 0
    THEN {[ptr |-> NULL, bytes |-> 0, failed |-> FALSE],
          [ptr |-> Block, bytes |-> 0, failed |-> FALSE]}
    ELSE IF n > MaxAllocBytes
    THEN {[ptr |-> NULL, bytes |-> 0, failed |-> TRUE]}
    ELSE {[ptr |-> NULL, bytes |-> 0, failed |-> TRUE],
          [ptr |-> Block, bytes |-> n, failed |-> FALSE]}

\* The slots of m that lie within the first `bytes` bytes.
Copy(m, bytes) ==
    [i \in Slots |-> IF (i + 1) * EntrySize <= bytes THEN m[i] ELSE Uninit]

\* realloc that allocates afresh and copies nothing: the mutant of Realloc.
ReallocNoCopy(oldBytes, oldMem, n) ==
    {[ptr |-> a.ptr, bytes |-> a.bytes, failed |-> a.failed, mem |-> NoMem] :
        a \in Malloc(n)}

\* realloc(entries, n): as malloc(n), the new block holding the old block's
\* contents up to the smaller of the two sizes.  The result overwrites
\* entries, so after a failure the old block is out of reach.
Realloc(oldBytes, oldMem, n) ==
    {[ptr |-> a.ptr, bytes |-> a.bytes, failed |-> a.failed,
      mem |-> Copy(oldMem, IF oldBytes < a.bytes THEN oldBytes ELSE a.bytes)] :
        a \in Malloc(n)}

\* The outcomes of the store entries[idx] = {key, value}.
StoreOutcomes(ptr, bytes, idx) ==
    IF ptr = NULL THEN {"crash"}
    ELSE IF (idx + 1) * EntrySize <= bytes THEN {"ok"}
    ELSE IF (idx + 1) * EntrySize < SizeMod THEN {"ok", "crash"}
    ELSE {"crash"}

\* What a load yields when it kills the process.
Fault == [key |-> "!", value |-> "!"]

\* The outcomes of the load of entries[idx]: an entry, or Fault.
LoadOutcomes(ptr, bytes, m, idx) ==
    IF ptr = NULL \/ idx \notin Slots THEN {Fault}
    ELSE IF m[idx] = Uninit THEN Entries \cup {Fault}
    ELSE IF (idx + 1) * EntrySize <= bytes THEN {m[idx]}
    ELSE {m[idx], Fault}

\* A store has landed behind the end of the block.
HeapCorrupt ==
    \E i \in Slots : mem[i] # Uninit /\ (i + 1) * EntrySize > blockBytes

\* ------------------------------------------------------------ operations

\* Map(initial_capacity): the state the constructor leaves.
Init ==
    \E ic \in InitCaps :
      \E a \in Malloc(MulSizeT(ic, EntrySize)) :
        /\ capacity = ic
        /\ size = 0
        /\ entries = a.ptr
        /\ blockBytes = a.bytes
        /\ mem = NoMem
        /\ status = "running"
        /\ last = [op |-> "construct", key |-> "-", result |-> "-"]
        /\ initial_capacity = ic
        /\ allocFailed = a.failed
        /\ reallocs = 0
        /\ nputs = 0
        /\ inserted = <<>>

\* Growth one entry early: a mutant of NeedsGrowth.
NeedsGrowthEarly(sz, cap) == sz + 1 = cap

\* Growth never taken at equality: a mutant of NeedsGrowth.
NeedsGrowthPast(sz, cap) == sz > cap

\* put's test size == capacity.
NeedsGrowth(sz, cap) == sz = cap

\* capacity = 2 in place of capacity *= 2: the mutant of NextCapacity.
NextCapacityAssign(cap) == 2

\* capacity *= 2.
NextCapacity(cap) == MulSizeT(cap, 2)

\* entries[size] in place of entries[size++]: the mutant of NextSize.
NextSizeStuck(sz) == sz

\* size++.
NextSize(sz) == IncSizeT(sz)

\* put(key, value).  When the store kills the process the fields are left as
\* they were before it.
Put(key, value) ==
    /\ status = "running"
    /\ nputs < MaxPuts
    /\ LET grow == NeedsGrowth(size, capacity)
           cap1 == IF grow THEN NextCapacity(capacity) ELSE capacity
           allocs == IF grow
                     THEN Realloc(blockBytes, mem, MulSizeT(cap1, EntrySize))
                     ELSE {[ptr |-> entries, bytes |-> blockBytes,
                            failed |-> FALSE, mem |-> mem]}
       IN \E a \in allocs :
            \E o \in StoreOutcomes(a.ptr, a.bytes, size) :
              /\ capacity' = cap1
              /\ entries' = a.ptr
              /\ blockBytes' = a.bytes
              /\ allocFailed' = (allocFailed \/ a.failed)
              /\ reallocs' = IF grow THEN reallocs + 1 ELSE reallocs
              /\ mem' = IF o = "ok"
                        THEN [a.mem EXCEPT ![size] = [key |-> key, value |-> value]]
                        ELSE a.mem
              /\ size' = IF o = "ok" THEN NextSize(size) ELSE size
              /\ nputs' = IF o = "ok" THEN nputs + 1 ELSE nputs
              /\ inserted' = IF o = "ok"
                             THEN Append(inserted, [key |-> key, value |-> value])
                             ELSE inserted
              /\ status' = IF o = "ok" THEN "running" ELSE "crashed"
              /\ last' = [op |-> "put", key |-> key, result |-> "-"]
              /\ UNCHANGED initial_capacity

\* A scan that reads one slot past size: the mutant of ScanEnd.
ScanEndInclusive(sz) == sz + 1

\* The bound of get's loop, i < size.
ScanEnd(sz) == sz

\* The results of get's loop from index i on: a value, nullptr or "crash".
RECURSIVE GetFrom(_, _)
GetFrom(i, key) ==
    IF i >= ScanEnd(size) THEN {nullptr}
    ELSE UNION {
           IF e = Fault THEN {"crash"}
           ELSE IF strcmp(e.key, key) = 0 THEN {e.value}
           ELSE GetFrom(i + 1, key) :
           e \in LoadOutcomes(entries, blockBytes, mem, i)}

\* The slots after a hit at index i is moved to the front.
MoveToFront(m, i) ==
    [j \in Slots |-> IF j = 0 THEN m[i] ELSE IF j = i THEN m[0] ELSE m[j]]

\* get that swaps the entry it finds with the first one: the mutant of Get.
GetMoveToFront(key) ==
    /\ status = "running"
    /\ \E r \in GetFrom(0, key) :
         /\ status' = IF r = "crash" THEN "crashed" ELSE "running"
         /\ last' = [op |-> "get", key |-> key, result |-> r]
         /\ mem' = IF \E i \in 0 .. (size - 1) : strcmp(mem[i].key, key) = 0
                   THEN MoveToFront(mem,
                          CHOOSE i \in 0 .. (size - 1) :
                            /\ strcmp(mem[i].key, key) = 0
                            /\ \A j \in 0 .. (i - 1) : strcmp(mem[j].key, key) # 0)
                   ELSE mem
    /\ UNCHANGED <<capacity, size, entries, blockBytes, initial_capacity,
                   allocFailed, reallocs, nputs, inserted>>

\* get(key).
Get(key) ==
    /\ status = "running"
    /\ \E r \in GetFrom(0, key) :
         /\ status' = IF r = "crash" THEN "crashed" ELSE "running"
         /\ last' = [op |-> "get", key |-> key, result |-> r]
    /\ UNCHANGED <<capacity, size, entries, blockBytes, mem, initial_capacity,
                   allocFailed, reallocs, nputs, inserted>>

\* ~Map(): free(entries), which may abort on a corrupted heap.
Destroy ==
    /\ status = "running"
    /\ status' \in (IF HeapCorrupt THEN {"destroyed", "crashed"} ELSE {"destroyed"})
    /\ last' = [op |-> "destroy", key |-> "-", result |-> "-"]
    /\ UNCHANGED <<capacity, size, entries, blockBytes, mem, initial_capacity,
                   allocFailed, reallocs, nputs, inserted>>

Next ==
    \/ \E key \in Keys, value \in Values : Put(key, value)
    \/ \E key \in Keys : Get(key)
    \/ Destroy

Spec == Init /\ [][Next]_vars

\* ---------------------------------------------------------------- claims

\* The positions (from 1) of the inserted entries whose key has the text of k.
MatchIdx(k) ==
    {i \in 1 .. Len(inserted) : Content(inserted[i].key) = Content(k)}

Min(S) == CHOOSE x \in S : \A y \in S : x <= y

\* get(last.key) has returned.
GetReturned == last.op = "get" /\ status = "running"

\* C1: a Map constructed with initial_capacity >= 1 has size <= capacity
\* after construction and after every put.
C1_SizeWithinCapacity == initial_capacity >= 1 => size <= capacity

\* A Map of capacity >= 1 that has grown and is full again.
C1_Witness ==
    /\ initial_capacity >= 1
    /\ status = "running"
    /\ reallocs >= 1
    /\ size = capacity

\* C2: get(k) returns the value of the earliest inserted entry whose key has
\* the same text as k, whichever pointer the text was passed through.
C2_FirstMatchWins ==
    (GetReturned /\ MatchIdx(last.key) # {})
        => last.result = inserted[Min(MatchIdx(last.key))].value

\* get was called with the pointer of a later entry, whose text an earlier
\* entry was inserted with through another pointer and with another value.
C2_Witness ==
    /\ GetReturned
    /\ \E i \in MatchIdx(last.key), j \in MatchIdx(last.key) :
         /\ i < j
         /\ inserted[j].key = last.key
         /\ inserted[i].key # last.key
         /\ inserted[i].value # inserted[j].value
         /\ i = Min(MatchIdx(last.key))
         /\ last.result = inserted[i].value

\* C3: a Map of capacity 0 is rejected by the constructor, so put never
\* runs on a Map whose capacity is 0.
C3_NoPutOnZeroCapacity == [][last'.op = "put" => capacity >= 1]_vars

\* C4: once malloc or realloc has failed the Map is not in use any more.
C4_AllocFailureIsFatal == allocFailed => status # "running"

\* C5: a put that grows the buffer leaves every entry stored before it at
\* its index, and after a growth every inserted entry is at the index it
\* was inserted at.
C5_GrowthStep ==
    (nputs' = nputs + 1 /\ reallocs' = reallocs + 1)
        => \A i \in 0 .. (size - 1) : mem[i] \in Entries /\ mem'[i] = mem[i]

C5_InsertedInPlace ==
    (reallocs >= 1 /\ status = "running")
        => \A i \in 1 .. Len(inserted) : mem[i - 1] = inserted[i]

C5_GrowthPreservesEntries == []C5_InsertedInPlace /\ [][C5_GrowthStep]_vars

\* initial_capacity + 1 entries are in a Map that grew on the last of them.
C5_Witness ==
    /\ initial_capacity >= 1
    /\ status = "running"
    /\ reallocs >= 1
    /\ nputs = initial_capacity + 1
    /\ \A i \in 1 .. Len(inserted) : mem[i - 1] = inserted[i]

\* C6: get(k) returns nullptr when no inserted entry has a key with k's text.
C6_MissReturnsNullptr ==
    (GetReturned /\ MatchIdx(last.key) = {}) => last.result = nullptr

\* get missed on a Map that holds entries under another text.
C6_Witness ==
    /\ GetReturned
    /\ MatchIdx(last.key) = {}
    /\ size >= 2
    /\ last.result = nullptr

\* C7: no step lowers capacity.
C7_CapacityNeverShrinks == [][capacity' >= capacity]_vars

\* A Map whose capacity has been doubled twice.
C7_Witness ==
    /\ status = "running"
    /\ reallocs >= 2
    /\ capacity = 4 * initial_capacity
    /\ initial_capacity >= 1

\* C8: get changes neither size, capacity, entries nor any stored entry.
C8_GetChangesNothing == [][last'.op = "get" => UNCHANGED container]_vars

\* get has hit an entry that is not the first one.
C8_Witness ==
    /\ GetReturned
    /\ size >= 2
    /\ MatchIdx(last.key) # {}
    /\ Min(MatchIdx(last.key)) >= 2

\* C9: size is the number of puts that have returned, in every state of a
\* live process (a process killed inside put has no size to observe).
C9_SizeCountsPuts == status # "crashed" => size = nputs

\* Three puts have returned, one of them after growing the buffer.
C9_Witness ==
    /\ status = "running"
    /\ nputs >= 3
    /\ reallocs >= 1
    /\ size = nputs

\* C10: put calls realloc exactly when size == capacity, capacity is then
\* twice what it was and otherwise what it was; a Map of capacity 1 holds
\* one entry without having grown, a Map of capacity 2 has capacity 4 after
\* three puts.
C10_PutStep ==
    last'.op = "put"
        => /\ (reallocs' = reallocs + 1) <=> (size = capacity)
           /\ (reallocs' = reallocs) <=> (size # capacity)
           /\ capacity' = IF size = capacity THEN 2 * capacity ELSE capacity

C10_Scenarios ==
    status = "running"
        => /\ (initial_capacity = 1 /\ nputs = 1)
                => (size = 1 /\ capacity = 1 /\ reallocs = 0)
           /\ (initial_capacity = 2 /\ nputs = 3)
                => (capacity = 4 /\ reallocs = 1)

C10_GrowthExactlyWhenFull == []C10_Scenarios /\ [][C10_PutStep]_vars

\* Scenario A: capacity 2, three puts, one growth to 4.
C10_Witness ==
    /\ status = "running"
    /\ initial_capacity = 2
    /\ nputs = 3
    /\ capacity = 4
    /\ reallocs = 1

====
